---- MODULE Spec2Model ----
(***************************************************************************)
(* Model of causal_tools.py: did, event_study_q and coefplot.              *)
(*                                                                         *)
(* A DataFrame is a record [index, columns, data]: the row labels, the     *)
(* column names in column order, and one sequence of cell values per       *)
(* column.  DataFrames live in a heap addressed by references, so that a   *)
(* write through the local name of a function can be told from a write to  *)
(* the caller's table.  Every function is run line by line; pc has the     *)
(* form "<function>:<line>".                                               *)
(***************************************************************************)
EXTENDS Integers, Sequences, FiniteSets, TLC

VARIABLES fn, pc, heap, args, df_did, df_ew, X, lm, quarterlist, c_df, result

vars == <<fn, pc, heap, args, df_did, df_ew, X, lm, quarterlist, c_df, result>>

(***************************************************************************)
(* Bounds of the explored inputs.                                          *)
(***************************************************************************)
MaxRows == 2
MaxTime == 2
MaxCoefs == 3

(***************************************************************************)
(* Sequences and strings.                                                  *)
(***************************************************************************)
Range(s) == {s[i] : i \in DOMAIN s}

RECURSIVE SetToSeq(_)
SetToSeq(S) ==
    IF S = {} THEN << >>
    ELSE LET m == CHOOSE x \in S : \A y \in S : x <= y
         IN  <<m>> \o SetToSeq(S \ {m})

Take(s, pos) == [k \in 1..Len(pos) |-> s[pos[k]]]

FirstIndex(s, x) == CHOOSE i \in DOMAIN s : s[i] = x /\ \A j \in 1..(i - 1) : s[j] # x

(***************************************************************************)
(* DataFrame primitives of pandas used by the source.                      *)
(***************************************************************************)
NA == -1

isna(v) == v = NA

NRows(t) == Len(t.index)

\* df[name] = vals : replaces the column in place, or appends a new column.
SetItem(t, name, vals) ==
    [index   |-> t.index,
     columns |-> IF name \in Range(t.columns) THEN t.columns
                 ELSE Append(t.columns, name),
     data    |-> [c \in Range(t.columns) \cup {name} |->
                     IF c = name THEN vals ELSE t.data[c]]]

\* df.loc[mask, name] = v
LocSet(t, mask, name, v) ==
    SetItem(t, name, [i \in 1..NRows(t) |-> IF mask[i] THEN v ELSE t.data[name][i]])

Broadcast(t, v) == [i \in 1..NRows(t) |-> v]

\* mutant of dropna: only the columns the regression uses are inspected
dropna_used_columns(t) ==
    LET keep == SetToSeq({i \in 1..NRows(t) :
                     \A c \in Range(t.columns) \ {"z"} : ~isna(t.data[c][i])})
    IN  [index   |-> Take(t.index, keep),
         columns |-> t.columns,
         data    |-> [c \in DOMAIN t.data |-> Take(t.data[c], keep)]]

\* df.dropna(): a new table without the rows that have a missing value in any column
dropna(t) ==
    LET keep == SetToSeq({i \in 1..NRows(t) :
                     \A c \in Range(t.columns) : ~isna(t.data[c][i])})
    IN  [index   |-> Take(t.index, keep),
         columns |-> t.columns,
         data    |-> [c \in DOMAIN t.data |-> Take(t.data[c], keep)]]

\* mutant of copy: the local name is bound to the caller's table itself
copy_alias(h, r) == r

\* the reference of a newly created object
fresh(h) == Cardinality(DOMAIN h) + 1

\* df.copy() (and the new object df.dropna() returns): a fresh reference
copy(h, r) == fresh(h)

(***************************************************************************)
(* statsmodels: sm.add_constant and sm.OLS(...).fit(cov_type).  The fit    *)
(* is kept as the names of the regressors, the covariance type and the     *)
(* row labels of the estimation sample.                                    *)
(***************************************************************************)
add_constant(names) == <<"const">> \o names

Unbound == [bound |-> FALSE, exog |-> << >>, cov_type |-> "", sample |-> << >>]

OLS(t, names, cov) ==
    [bound |-> TRUE, exog |-> add_constant(names), cov_type |-> cov, sample |-> t.index]

NoResult == [kind |-> "none", err |-> ""]
Return   == [kind |-> "return", err |-> ""]
Raise(e) == [kind |-> "raise", err |-> e]

None == [isNone |-> TRUE, names |-> << >>]
Names(l) == [isNone |-> FALSE, names |-> l]

NoStart == [isTuple |-> FALSE, s |-> "", t |-> << >>]

NoFrame == [index |-> << >>, var |-> << >>]

(***************************************************************************)
(* did: inputs.                                                            *)
(***************************************************************************)
DidColumns == <<"t", "grp", "y", "x", "z">>
Groups == {1, 2}
Times == 1..MaxTime
NaPatterns == {"", "y", "z"}

DidRow == [t : Times, grp : Groups, na : NaPatterns]

DidFrame(rows) ==
    [index   |-> [i \in 1..Len(rows) |-> i],
     columns |-> DidColumns,
     data    |-> [c \in Range(DidColumns) |->
                    [i \in 1..Len(rows) |->
                        IF rows[i].na = c THEN NA
                        ELSE IF c = "t" THEN rows[i].t
                        ELSE IF c = "grp" THEN rows[i].grp
                        ELSE 0]]]

DidFrames == UNION {{DidFrame(rows) : rows \in [1..n -> DidRow]} : n \in 0..MaxRows}

DidArgs(treat, post, ctl, hc3) ==
    [df |-> 1, var_outcome |-> "y", var_treat |-> "grp", var_time |-> "t",
     treat |-> treat, post |-> post, baseline |-> "", vars_control |-> ctl,
     hc3_se |-> hc3, lm |-> Unbound, start |-> NoStart]

InitDid ==
    /\ fn = "did"
    /\ pc = "did:47"
    /\ \E t \in DidFrames : heap = (1 :> t)
    /\ \E treat \in Groups, post \in 1..(MaxTime + 1),
          ctl \in {None, Names(<<"x">>)}, hc3 \in BOOLEAN :
          args = DidArgs(treat, post, ctl, hc3)
    /\ df_did = 0
    /\ df_ew = 0
    /\ X = << >>
    /\ lm = Unbound
    /\ quarterlist = << >>
    /\ c_df = NoFrame
    /\ result = NoResult

(***************************************************************************)
(* did, lines 47-60.                                                       *)
(***************************************************************************)
\* 47: df_did = df.dropna().copy()
DidCopy ==
    /\ pc = "did:47"
    /\ LET r == copy(heap, args.df)
       IN  /\ heap' = (r :> dropna(heap[args.df])) @@ heap
           /\ df_did' = r
    /\ pc' = "did:48"
    /\ UNCHANGED <<fn, args, df_ew, X, lm, quarterlist, c_df, result>>

\* mutant of post_mask: the cutoff row itself counts as pre-period
post_mask_strict(t, var_time, post) ==
    [i \in 1..NRows(t) |-> t.data[var_time][i] > post]

\* df_did[var_time] >= post
post_mask(t, var_time, post) ==
    [i \in 1..NRows(t) |-> t.data[var_time][i] >= post]

\* 48-49: df_did["post"] = 0 ; df_did.loc[df_did[var_time] >= post, "post"] = 1
DidPost ==
    /\ pc = "did:48"
    /\ LET t0 == SetItem(heap[df_did], "post", Broadcast(heap[df_did], 0))
           t1 == LocSet(t0, post_mask(t0, args.var_time, args.post), "post", 1)
       IN  heap' = [heap EXCEPT ![df_did] = t1]
    /\ pc' = "did:50"
    /\ UNCHANGED <<fn, args, df_did, df_ew, X, lm, quarterlist, c_df, result>>

\* df[var_treat] == treat
treat_mask(t, var_treat, treat) ==
    [i \in 1..NRows(t) |-> t.data[var_treat][i] = treat]

\* 50-51: df_did["treatment"] = 0 ; df_did.loc[df_did[var_treat] == treat, "treatment"] = 1
DidTreatment ==
    /\ pc = "did:50"
    /\ LET t0 == SetItem(heap[df_did], "treatment", Broadcast(heap[df_did], 0))
           t1 == LocSet(t0, treat_mask(t0, args.var_treat, args.treat), "treatment", 1)
       IN  heap' = [heap EXCEPT ![df_did] = t1]
    /\ pc' = "did:52"
    /\ UNCHANGED <<fn, args, df_did, df_ew, X, lm, quarterlist, c_df, result>>

\* df[a] * df[b]
Product(t, a, b) == [i \in 1..NRows(t) |-> t.data[a][i] * t.data[b][i]]

\* 52: df_did["post_treat"] = df_did["treatment"] * df_did["post"]
DidPostTreat ==
    /\ pc = "did:52"
    /\ heap' = [heap EXCEPT ![df_did] =
                   SetItem(@, "post_treat", Product(@, "treatment", "post"))]
    /\ pc' = "did:53"
    /\ UNCHANGED <<fn, args, df_did, df_ew, X, lm, quarterlist, c_df, result>>

\* 53-56: X = [...] ; with controls: X = X + vars_control and the classical fit
DidRegressors ==
    /\ pc = "did:53"
    /\ LET X0 == <<"treatment", "post", "post_treat">>
       IN  IF ~args.vars_control.isNone
           THEN /\ X' = X0 \o args.vars_control.names
                /\ lm' = OLS(heap[df_did], X', "nonrobust")
           ELSE /\ X' = X0
                /\ lm' = lm
    /\ pc' = "did:57"
    /\ UNCHANGED <<fn, heap, args, df_did, df_ew, quarterlist, c_df, result>>

\* 57-58: if hc3_se: lm = sm.OLS(...).fit(cov_type="HC3")
DidHc3 ==
    /\ pc = "did:57"
    /\ lm' = IF args.hc3_se THEN OLS(heap[df_did], X, "HC3") ELSE lm
    /\ pc' = "did:60"
    /\ UNCHANGED <<fn, heap, args, df_did, df_ew, X, quarterlist, c_df, result>>

\* 60: return(lm) ; reading the unassigned local lm raises UnboundLocalError
DidReturn ==
    /\ pc = "did:60"
    /\ result' = IF lm.bound THEN Return ELSE Raise("UnboundLocalError")
    /\ pc' = "done"
    /\ UNCHANGED <<fn, heap, args, df_did, df_ew, X, lm, quarterlist, c_df>>

did == DidCopy \/ DidPost \/ DidTreatment \/ DidPostTreat \/ DidRegressors
          \/ DidHc3 \/ DidReturn

(***************************************************************************)
(* Strings: Python compares str values character by character.  The only   *)
(* strings the source compares or sorts are made of decimal digits.        *)
(***************************************************************************)
Digits == "0123456789"

Digit(d) == SubSeq(Digits, d + 1, d + 1)

Ord(ch) == CHOOSE k \in 1..Len(Digits) : SubSeq(Digits, k, k) = ch

RECURSIVE StrLess(_, _)
StrLess(a, b) ==
    IF b = "" THEN FALSE
    ELSE IF a = "" THEN TRUE
    ELSE LET ca == Ord(SubSeq(a, 1, 1))
             cb == Ord(SubSeq(b, 1, 1))
         IN  IF ca # cb THEN ca < cb
             ELSE StrLess(SubSeq(a, 2, Len(a)), SubSeq(b, 2, Len(b)))

RECURSIVE SortStrings(_)
SortStrings(S) ==
    IF S = {} THEN << >>
    ELSE LET m == CHOOSE x \in S : \A y \in S \ {x} : StrLess(x, y)
         IN  <<m>> \o SortStrings(S \ {m})

\* Series.dt.strftime("%m") and Series.dt.strftime("%Y") of one timestamp
strftime_m(ts) == Digit(ts.month \div 10) \o Digit(ts.month % 10)

strftime_Y(ts) ==
    Digit(ts.year \div 1000) \o Digit((ts.year \div 100) % 10)
        \o Digit((ts.year \div 10) % 10) \o Digit(ts.year % 10)

\* mutant of quarter_of_month: the thresholds are compared with <=
quarter_of_month_inclusive(month) ==
    IF ~StrLess("04", month) THEN "1"
    ELSE IF ~StrLess("07", month) THEN "2"
    ELSE IF ~StrLess("10", month) THEN "3"
    ELSE "4"

\* 102: np.where(month<"04", "1", np.where(month<"07", "2", np.where(month<"10", "3", "4")))
quarter_of_month(month) ==
    IF StrLess(month, "04") THEN "1"
    ELSE IF StrLess(month, "07") THEN "2"
    ELSE IF StrLess(month, "10") THEN "3"
    ELSE "4"

\* mutant of unique: the distinct values in sorted order
unique_sorted(s) == SortStrings(Range(s))

\* Series.unique(): the distinct values in order of first occurrence
unique(s) ==
    Take(s, SetToSeq({i \in DOMAIN s : \A j \in 1..(i - 1) : s[j] # s[i]}))

\* pd.get_dummies(data=df, columns=[col]): col is removed and one indicator
\* column col_<value> per distinct value is appended, values in sorted order
get_dummies(t, col) ==
    LET cats  == SortStrings(Range(t.data[col]))
        kept  == SelectSeq(t.columns, LAMBDA c : c # col)
        dname == [k \in 1..Len(cats) |-> col \o "_" \o cats[k]]
    IN  [index   |-> t.index,
         columns |-> kept \o dname,
         data    |-> [c \in Range(kept) \cup Range(dname) |->
                        IF c \in Range(kept) THEN t.data[c]
                        ELSE LET k == CHOOSE k \in 1..Len(cats) : dname[k] = c
                             IN  [i \in 1..NRows(t) |->
                                    IF t.data[col][i] = cats[k] THEN 1 ELSE 0]]]

\* mutant of missing_labels: labels that are not found are ignored
missing_labels_ignored(t, names) == {}

\* the labels df.drop(columns=names) does not find; a non-empty set is a KeyError
missing_labels(t, names) == {n \in Range(names) : n \notin Range(t.columns)}

\* mutant of drop_columns: nothing is removed
drop_columns_none(t, names) == t

\* df.drop(columns=names)
drop_columns(t, names) ==
    LET kept == SelectSeq(t.columns, LAMBDA c : c \notin Range(names))
    IN  [index   |-> t.index,
         columns |-> kept,
         data    |-> [c \in Range(kept) |-> t.data[c]]]

\* df.loc[:, a:b] by label: both ends must be column labels (the column index
\* is not sorted, so a label that is not found is a KeyError)
slice_found(t, a, b) == a \in Range(t.columns) /\ b \in Range(t.columns)

slice_names(t, a, b) ==
    SubSeq(t.columns, FirstIndex(t.columns, a), FirstIndex(t.columns, b))

(***************************************************************************)
(* event_study_q: inputs.                                                  *)
(***************************************************************************)
EsColumns == <<"t", "grp", "y", "x">>
Years == 2021..2022
Months == 1..12
Calendar == [year : Years, month : Months]
EsTimes == {[year |-> 2021, month |-> 12], [year |-> 2022, month |-> 1],
            [year |-> 2022, month |-> 3],  [year |-> 2022, month |-> 4]}
Baselines == {"20213", "20214", "20221", "20222"}

EsFrame(rows) ==
    [index   |-> [i \in 1..Len(rows) |-> i],
     columns |-> EsColumns,
     data    |-> [c \in Range(EsColumns) |->
                    [i \in 1..Len(rows) |->
                        IF c = "t" THEN rows[i].t
                        ELSE IF c = "grp" THEN rows[i].grp
                        ELSE 0]]]

EsFrames ==
    UNION {{EsFrame(rows) : rows \in [1..n -> [t : EsTimes, grp : Groups]]} : n \in 0..MaxRows}
      \cup {EsFrame(<<r>>) : r \in [t : Calendar, grp : Groups]}

EsArgs(treat, baseline, ctl, hc3) ==
    [df |-> 1, var_outcome |-> "y", var_treat |-> "grp", var_time |-> "t",
     treat |-> treat, post |-> 0, baseline |-> baseline, vars_control |-> ctl,
     hc3_se |-> hc3, lm |-> Unbound, start |-> NoStart]

InitEs ==
    /\ fn = "event_study_q"
    /\ pc = "es:99"
    /\ \E t \in EsFrames : heap = (1 :> t)
    /\ \E baseline \in Baselines, ctl \in {None, Names(<<"x">>)}, hc3 \in BOOLEAN :
          args = EsArgs(1, baseline, ctl, hc3)
    /\ df_did = 0
    /\ df_ew = 0
    /\ X = << >>
    /\ lm = Unbound
    /\ quarterlist = << >>
    /\ c_df = NoFrame
    /\ result = NoResult

(***************************************************************************)
(* event_study_q, lines 99-119.                                            *)
(***************************************************************************)
EsFrameVars == <<fn, args, df_did, df_ew, X, lm, quarterlist, c_df, result>>

\* 99: df_ew = df.copy()
EsCopy ==
    /\ pc = "es:99"
    /\ LET r == copy(heap, args.df)
       IN  /\ heap' = (r :> heap[args.df]) @@ heap
           /\ df_ew' = r
    /\ pc' = "es:101"
    /\ UNCHANGED <<fn, args, df_did, X, lm, quarterlist, c_df, result>>

\* 101: df_ew["month"] = df_ew[var_time].dt.strftime("%m")
EsMonth ==
    /\ pc = "es:101"
    /\ heap' = [heap EXCEPT ![df_ew] =
                  SetItem(@, "month",
                          [i \in 1..NRows(@) |-> strftime_m(@.data[args.var_time][i])])]
    /\ pc' = "es:102"
    /\ UNCHANGED EsFrameVars

\* 102: df_ew["quarter"] = np.where(...)
EsQuarter ==
    /\ pc = "es:102"
    /\ heap' = [heap EXCEPT ![df_ew] =
                  SetItem(@, "quarter",
                          [i \in 1..NRows(@) |-> quarter_of_month(@.data["month"][i])])]
    /\ pc' = "es:103"
    /\ UNCHANGED EsFrameVars

\* 103: df_ew["quarter"] = df_ew[var_time].dt.strftime("%Y") + df_ew["quarter"]
EsLabel ==
    /\ pc = "es:103"
    /\ heap' = [heap EXCEPT ![df_ew] =
                  SetItem(@, "quarter",
                          [i \in 1..NRows(@) |->
                              strftime_Y(@.data[args.var_time][i]) \o @.data["quarter"][i]])]
    /\ pc' = "es:104"
    /\ UNCHANGED EsFrameVars

\* 104-105: df_ew["treatment"] = 0 ; df_ew.loc[df_ew[var_treat] == treat, "treatment"] = 1
EsTreatment ==
    /\ pc = "es:104"
    /\ LET t0 == SetItem(heap[df_ew], "treatment", Broadcast(heap[df_ew], 0))
           t1 == LocSet(t0, treat_mask(t0, args.var_treat, args.treat), "treatment", 1)
       IN  heap' = [heap EXCEPT ![df_ew] = t1]
    /\ pc' = "es:106"
    /\ UNCHANGED EsFrameVars

\* 106: quarterlist = df_ew["quarter"].unique()
EsQuarterlist ==
    /\ pc = "es:106"
    /\ quarterlist' = unique(heap[df_ew].data["quarter"])
    /\ pc' = "es:107"
    /\ UNCHANGED <<fn, heap, args, df_did, df_ew, X, lm, c_df, result>>

\* 107: df_ew = pd.get_dummies(data=df_ew, columns=["quarter"])
EsDummies ==
    /\ pc = "es:107"
    /\ heap' = (fresh(heap) :> get_dummies(heap[df_ew], "quarter")) @@ heap
    /\ df_ew' = fresh(heap)
    /\ pc' = "es:109"
    /\ UNCHANGED <<fn, args, df_did, X, lm, quarterlist, c_df, result>>

\* 109-110: for i in quarterlist: df_ew["inter_"+i] = df_ew["treatment"]*df_ew["quarter_"+i]
RECURSIVE interactions(_, _)
interactions(t, qs) ==
    IF qs = << >> THEN t
    ELSE interactions(SetItem(t, "inter_" \o Head(qs),
                              Product(t, "treatment", "quarter_" \o Head(qs))),
                      Tail(qs))

EsInteractions ==
    /\ pc = "es:109"
    /\ heap' = [heap EXCEPT ![df_ew] = interactions(@, quarterlist)]
    /\ pc' = "es:111"
    /\ UNCHANGED EsFrameVars

BaselineColumns == <<"quarter_" \o args.baseline, "inter_" \o args.baseline>>

\* 111: df_ew = df_ew.drop(columns=["quarter_"+baseline,"inter_"+baseline])
EsDrop ==
    /\ pc = "es:111"
    /\ IF missing_labels(heap[df_ew], BaselineColumns) # {}
       THEN /\ result' = Raise("KeyError")
            /\ pc' = "done"
            /\ UNCHANGED <<heap, df_ew>>
       ELSE /\ heap' = (fresh(heap) :> drop_columns(heap[df_ew], BaselineColumns)) @@ heap
            /\ df_ew' = fresh(heap)
            /\ pc' = "es:112"
            /\ result' = result
    /\ UNCHANGED <<fn, args, df_did, X, lm, quarterlist, c_df>>

\* "inter_"+str(quarterlist[-1])
LastInter == "inter_" \o quarterlist[Len(quarterlist)]

\* df_ew.loc[:,"treatment":"inter_"+str(quarterlist[-1])]
SpanFound == quarterlist # << >> /\ slice_found(heap[df_ew], "treatment", LastInter)
Span == slice_names(heap[df_ew], "treatment", LastInter)

\* 112: the classical fit on the span
EsFit ==
    /\ pc = "es:112"
    /\ IF SpanFound
       THEN /\ lm' = OLS(heap[df_ew], Span, "nonrobust")
            /\ pc' = "es:113"
            /\ result' = result
       ELSE /\ lm' = lm
            /\ pc' = "done"
            /\ result' = Raise(IF quarterlist = << >> THEN "IndexError" ELSE "KeyError")
    /\ UNCHANGED <<fn, heap, args, df_did, df_ew, X, quarterlist, c_df>>

\* 113-114: with controls, the classical fit on the controls joined with the span
EsFitControls ==
    /\ pc = "es:113"
    /\ lm' = IF ~args.vars_control.isNone
             THEN OLS(heap[df_ew], args.vars_control.names \o Span, "nonrobust")
             ELSE lm
    /\ pc' = "es:115"
    /\ UNCHANGED <<fn, heap, args, df_did, df_ew, X, quarterlist, c_df, result>>

\* 115-118: with hc3_se, the same fits with cov_type="HC3"
EsHc3 ==
    /\ pc = "es:115"
    /\ lm' = IF args.hc3_se
             THEN IF ~args.vars_control.isNone
                  THEN OLS(heap[df_ew], args.vars_control.names \o Span, "HC3")
                  ELSE OLS(heap[df_ew], Span, "HC3")
             ELSE lm
    /\ pc' = "es:119"
    /\ UNCHANGED <<fn, heap, args, df_did, df_ew, X, quarterlist, c_df, result>>

\* 119: return(lm, quarterlist)
EsReturn ==
    /\ pc = "es:119"
    /\ result' = Return
    /\ pc' = "done"
    /\ UNCHANGED <<fn, heap, args, df_did, df_ew, X, lm, quarterlist, c_df>>

event_study_q ==
    EsCopy \/ EsMonth \/ EsQuarter \/ EsLabel \/ EsTreatment \/ EsQuarterlist
      \/ EsDummies \/ EsInteractions \/ EsDrop \/ EsFit \/ EsFitControls
      \/ EsHc3 \/ EsReturn

(***************************************************************************)
(* coefplot: inputs.  The fitted model is one the estimators above         *)
(* produce: sm.add_constant puts the intercept first.                      *)
(***************************************************************************)
CoefNames == {"a", "b", "treatment", "post", "post_treat"}

Models ==
    UNION {{[bound |-> TRUE, exog |-> add_constant(names), cov_type |-> "HC3",
             sample |-> << >>] : names \in [1..n -> CoefNames]} : n \in 0..MaxCoefs}

Str(s) == [isTuple |-> FALSE, s |-> s, t |-> << >>]
Tuple(t) == [isTuple |-> TRUE, s |-> "", t |-> t]

Starts == {Str(""), Str("post"), Str("treatment"), Str("const"), Str("b"),
           Tuple(<<"treatment", "post_treat">>), Tuple(<< >>)}

PlotArgs(m, start) ==
    [df |-> 0, var_outcome |-> "", var_treat |-> "", var_time |-> "",
     treat |-> 0, post |-> 0, baseline |-> "", vars_control |-> None,
     hc3_se |-> FALSE, lm |-> m, start |-> start]

InitPlot ==
    /\ fn = "coefplot"
    /\ pc = "plot:153"
    /\ heap = << >>
    /\ \E m \in Models, start \in Starts : args = PlotArgs(m, start)
    /\ df_did = 0
    /\ df_ew = 0
    /\ X = << >>
    /\ lm = Unbound
    /\ quarterlist = << >>
    /\ c_df = NoFrame
    /\ result = NoResult

(***************************************************************************)
(* coefplot, lines 153-172.                                                *)
(***************************************************************************)
\* str.startswith(prefix)
startswith_str(name, prefix) ==
    Len(prefix) <= Len(name) /\ SubSeq(name, 1, Len(prefix)) = prefix

\* Series.str.startswith(start): start is a string or a tuple of strings
startswith(name, start) ==
    IF start.isTuple
    THEN \E k \in DOMAIN start.t : startswith_str(name, start.t[k])
    ELSE startswith_str(name, start.s)

\* mutant of coefficient_frame: the first coefficient is kept
coefficient_frame_all(m) ==
    [index |-> [k \in 1..Len(m.exog) |-> k - 1],
     var   |-> m.exog]

\* 153-157: c_df, one row per coefficient after the first (values[1:]),
\* labelled 0, 1, ... by the default index
coefficient_frame(m) ==
    [index |-> [k \in 1..(Len(m.exog) - 1) |-> k - 1],
     var   |-> SubSeq(m.exog, 2, Len(m.exog))]

PlotFrame ==
    /\ pc = "plot:153"
    /\ c_df' = coefficient_frame(args.lm)
    /\ pc' = "plot:158"
    /\ UNCHANGED <<fn, heap, args, df_did, df_ew, X, lm, quarterlist, result>>

\* 158: c_df = c_df.loc[c_df["var"].str.startswith(start)]
PlotFilter ==
    /\ pc = "plot:158"
    /\ LET keep == SetToSeq({k \in DOMAIN c_df.var : startswith(c_df.var[k], args.start)})
       IN  c_df' = [index |-> Take(c_df.index, keep), var |-> Take(c_df.var, keep)]
    /\ pc' = "plot:160"
    /\ UNCHANGED <<fn, heap, args, df_did, df_ew, X, lm, quarterlist, result>>

\* 160-172: the chart is drawn and the function returns None
PlotRender ==
    /\ pc = "plot:160"
    /\ result' = Return
    /\ pc' = "done"
    /\ UNCHANGED <<fn, heap, args, df_did, df_ew, X, lm, quarterlist, c_df>>

\* 166: pd.np is an attribute only of the pandas releases before 2.0
PlotRenderNoNumpyAlias ==
    /\ pc = "plot:160"
    /\ result' = Raise("AttributeError")
    /\ pc' = "done"
    /\ UNCHANGED <<fn, heap, args, df_did, df_ew, X, lm, quarterlist, c_df>>

coefplot == PlotFrame \/ PlotFilter \/ PlotRender \/ PlotRenderNoNumpyAlias

Init == InitDid \/ InitEs \/ InitPlot

Next == did \/ event_study_q \/ coefplot

Spec == Init /\ [][Next]_vars

(***************************************************************************)
(* Properties.                                                             *)
(***************************************************************************)
Caller == heap[args.df]

DidDone == fn = "did" /\ pc = "done"
EsDone == fn = "event_study_q" /\ pc = "done"

\* the label <year><1-4> of a timestamp, by calendar arithmetic
CalendarLabel(ts) == strftime_Y(ts) \o Digit(((ts.month - 1) \div 3) + 1)

RowLabel(i) == CalendarLabel(Caller.data[args.var_time][i])

ObservedLabels == {RowLabel(i) : i \in 1..NRows(Caller)}

\* C1: for every combination of vars_control and hc3_se, did returns a fitted
\* model and raises nothing; without controls the regressors are intercept,
\* treatment, post, post_treat; the covariance is HC3 when hc3_se is true and
\* classical when it is false.
C1_DidReturnsModel ==
    DidDone =>
        /\ result.kind = "return"
        /\ lm.bound
        /\ args.vars_control.isNone =>
               lm.exog = <<"const", "treatment", "post", "post_treat">>
        /\ lm.cov_type = IF args.hc3_se THEN "HC3" ELSE "nonrobust"

ExpectedEsRegressors ==
    {"const", "treatment"}
      \cup {"quarter_" \o q : q \in ObservedLabels \ {args.baseline}}
      \cup {"inter_" \o q : q \in ObservedLabels \ {args.baseline}}
      \cup (IF args.vars_control.isNone THEN {} ELSE Range(args.vars_control.names))

\* C2: for every dataset and every baseline among the observed quarter labels,
\* event_study_q fits a model whose regressors are exactly the intercept,
\* treatment, the quarter dummies and the interactions of every observed
\* quarter but the baseline, and the controls when given.
C2_EsRegressorSet ==
    (EsDone /\ args.baseline \in ObservedLabels) =>
        /\ result.kind = "return"
        /\ lm.bound
        /\ Range(lm.exog) = ExpectedEsRegressors
        /\ Len(lm.exog) = Cardinality(ExpectedEsRegressors)

HasPrefix(name, q) == \E k \in 0..Len(name) : SubSeq(name, 1, k) = q

Selected(name) ==
    IF args.start.isTuple
    THEN \E q \in Range(args.start.t) : HasPrefix(name, q)
    ELSE HasPrefix(name, args.start.s)

C4_BaselineOmitted ==
    (fn = "event_study_q" /\ result.kind = "return") =>
        /\ lm.bound
        /\ ("quarter_" \o args.baseline) \notin Range(lm.exog)
        /\ ("inter_" \o args.baseline) \notin Range(lm.exog)

C4_Witness ==
    /\ fn = "event_study_q"
    /\ result.kind = "return"
    /\ args.baseline \in Range(quarterlist)
    /\ Len(quarterlist) = 2
    /\ ~args.vars_control.isNone
    /\ args.hc3_se

\* C5: when the baseline is not among the observed quarter labels,
\* event_study_q ends with an error and returns nothing.
C5_UnknownBaselineRaises ==
    (fn = "event_study_q" /\ args.baseline \notin ObservedLabels) =>
        /\ result.kind # "return"
        /\ pc = "done" => (result.kind = "raise" /\ ~lm.bound)

C5_Witness ==
    /\ EsDone
    /\ args.baseline \notin ObservedLabels
    /\ NRows(Caller) = 2
    /\ result = Raise("KeyError")

FirstRow(q) == CHOOSE i \in 1..NRows(Caller) :
                  RowLabel(i) = q /\ \A j \in 1..(i - 1) : RowLabel(j) # q

QuarterlistAssigned ==
    fn = "event_study_q" /\ pc \notin {"es:99", "es:101", "es:102", "es:103", "es:104", "es:106"}

\* C7: quarterlist holds every observed quarter label exactly once, in the
\* order of the labels' first rows (it is not sorted).
C7_QuarterlistOrder ==
    QuarterlistAssigned =>
        /\ Range(quarterlist) = ObservedLabels
        /\ Len(quarterlist) = Cardinality(ObservedLabels)
        /\ \A a, b \in DOMAIN quarterlist :
              a < b <=> FirstRow(quarterlist[a]) < FirstRow(quarterlist[b])

C7_Witness ==
    /\ QuarterlistAssigned
    /\ quarterlist = <<"20222", "20214">>

\* C8: the quarter label of a timestamp is its 4-digit year followed by 1 for
\* months 01-03, 2 for 04-06, 3 for 07-09 and 4 for 10-12.
C8_QuarterLabel ==
    (fn = "event_study_q" /\ pc \in {"es:104", "es:106", "es:107"}) =>
        LET t == heap[df_ew]
        IN  \A i \in 1..NRows(t) :
              LET ts == t.data[args.var_time][i]
              IN  t.data["quarter"][i] =
                    strftime_Y(ts) \o
                      (IF ts.month \in 1..3 THEN "1"
                       ELSE IF ts.month \in 4..6 THEN "2"
                       ELSE IF ts.month \in 7..9 THEN "3"
                       ELSE "4")

C8_Witness ==
    /\ fn = "event_study_q"
    /\ pc = "es:104"
    /\ NRows(heap[df_ew]) = 2
    /\ heap[df_ew].data["t"] = <<[year |-> 2021, month |-> 12], [year |-> 2022, month |-> 1]>>
    /\ heap[df_ew].data["quarter"] = <<"20214", "20221">>

\* C9: did estimates on exactly the input rows without a missing value in any
\* column of the dataset, used by the regression or not.
C9_DidSample ==
    (DidDone /\ lm.bound) =>
        /\ \A i \in 1..NRows(Caller) :
              (Caller.index[i] \in Range(lm.sample)) <=>
                  (\A c \in Range(Caller.columns) : Caller.data[c][i] # NA)
        /\ \A j, k \in DOMAIN lm.sample : j < k => lm.sample[j] < lm.sample[k]

C9_Witness ==
    /\ DidDone
    /\ lm.bound
    /\ Len(lm.sample) = 1
    /\ \E i \in 1..NRows(Caller) :
          /\ Caller.data["z"][i] = NA
          /\ Caller.data["y"][i] # NA

\* C10: no step of did or event_study_q changes the caller's dataset.
C10_CallerUnchanged ==
    [][(fn \in {"did", "event_study_q"}) => (heap'[args.df] = Caller)]_vars

C10_Witness ==
    /\ EsDone
    /\ result.kind = "raise"
    /\ "treatment" \in Range(heap[df_ew].columns)
    /\ Caller.columns = EsColumns
    /\ NRows(Caller) = 2
====
